---- MODULE Spec2Model ----
(***************************************************************************)
(* A model of format.py: the saltpack prototype encoder and decoder.       *)
(*                                                                         *)
(* Byte strings are sequences.  Plain bytes are integers 0..255.  The      *)
(* output of a cryptographic primitive is a one-element sequence holding a *)
(* symbolic term (what was sealed, under which key and nonce); a term can  *)
(* be opened only with the key and nonce it was made with, and an altered  *)
(* term (flip # 0) opens under no key.  Keys are symbolic values.  The     *)
(* byte stream is the sequence of the msgpack objects serialized onto it.  *)
(***************************************************************************)
EXTENDS Integers, Sequences, FiniteSets, TLC

\* ------------------------------------------------------------------ bounds
MaxGroups == 2        \* recipient groups per encode call
MaxRecipients == 2    \* recipients per encode call, over all its groups
MaxFullChunks == 2    \* full chunks of the longest message

\* ------------------------------------------------- keys of everyone involved
jack_private == 170
max_private == 187
chris_private == 204

\* nacl.bindings.crypto_scalarmult_base: the public point of a private scalar
crypto_scalarmult_base(sk) == [pk |-> sk]

jack_public == crypto_scalarmult_base(jack_private)
max_public == crypto_scalarmult_base(max_private)
chris_public == crypto_scalarmult_base(chris_private)

PrivateKeys == {jack_private, max_private, chris_private}

\* Python's None, as returned by dict.get for an absent key
None == <<>>

\* ---------------------------------------------------------- utility functions
\* os.urandom: the c-th value drawn from a random source in state e.  Two
\* draws of one run never coincide.
random_key(e, c) == <<e, c>>

random_nonce(e, c) == [i \in 1..24 |-> (e * 101 + c * 7 + i) % 256]

chunk_size == 100

RECURSIVE chunks_from(_, _)
chunks_from(message, chunk_start) ==
    IF chunk_start < Len(message)
    THEN <<SubSeq(message, chunk_start + 1,
                  IF chunk_start + chunk_size < Len(message)
                  THEN chunk_start + chunk_size ELSE Len(message))>>
         \o chunks_from(message, chunk_start + chunk_size)
    ELSE <<>>

\* the terminal chunk is left out after a short last chunk
chunks_without_empty(message) ==
    IF Len(message) % chunk_size # 0
    THEN chunks_from(message, 0)
    ELSE Append(chunks_from(message, 0), <<>>)

chunks_with_empty(message) == Append(chunks_from(message, 0), <<>>)

\* the number is lost: every nonce is the same
to_bytes_of_zero(n, length) == [i \in 1..length |-> 0]

\* int.to_bytes(length, byteorder='big')
RECURSIVE to_bytes(_, _)
to_bytes(n, length) ==
    IF length = 0 THEN <<>>
    ELSE Append(to_bytes(n \div 256, length - 1), n % 256)

\* --------------------------------------------------------------- primitives
\* crypto_box: sealed to the shared secret of (sk, pk), 16 bytes of overhead
crypto_box(msg, nonce, sk, pk) ==
    <<[key |-> {crypto_scalarmult_base(sk), pk}, nonce |-> nonce,
       msg |-> msg, flip |-> 0]>>

crypto_box_opens(ciphertext, nonce, sk, pk) ==
    /\ Len(ciphertext) = 1
    /\ ciphertext[1].flip = 0
    /\ ciphertext[1].key = {crypto_scalarmult_base(sk), pk}
    /\ ciphertext[1].nonce = nonce

crypto_secretbox(msg, nonce, key) ==
    <<[key |-> key, nonce |-> nonce, msg |-> msg, flip |-> 0]>>

crypto_secretbox_opens(ciphertext, nonce, key) ==
    /\ Len(ciphertext) = 1
    /\ ciphertext[1].flip = 0
    /\ ciphertext[1].key = key
    /\ ciphertext[1].nonce = nonce

\* the plaintext of a term that opens
crypto_open(ciphertext) == ciphertext[1].msg

\* hmac.new(key, digestmod='sha512') after update(a); update(b), digest()[:32]
hmac_digest(key, a, b) == [hkey |-> key, hdata |-> a \o b, hlen |-> 64]

digest_prefix(d, n) == [d EXCEPT !.hlen = IF n < d.hlen THEN n ELSE d.hlen]

chunk_mac(mac_key, nonce, boxed_chunk) ==
    digest_prefix(hmac_digest(mac_key, nonce, boxed_chunk), 32)

\* hmac.compare_digest
compare_digest(a, b) == a = b

\* ------------------------------------------------------------------ msgpack
BinLen(n) == IF n < 256 THEN n + 2 ELSE IF n < 65536 THEN n + 3 ELSE n + 5
StrLen(n) == IF n < 32 THEN n + 1 ELSE n + 2
MapHdr(n) == IF n < 16 THEN 1 ELSE 3
IntLen(n) == IF n < 128 THEN 1 ELSE IF n < 256 THEN 2
             ELSE IF n < 65536 THEN 3 ELSE 5

RECURSIVE SumOver(_, _)
SumOver(f, S) ==
    IF S = {} THEN 0
    ELSE LET x == CHOOSE y \in S : TRUE IN f[x] + SumOver(f, S \ {x})

\* byte length of the serialized per-recipient map
KeyMapLen(m) ==
    MapHdr(Cardinality(DOMAIN m)) + StrLen(11) + BinLen(32)
    + (IF "mac_group" \in DOMAIN m THEN StrLen(9) + IntLen(m.mac_group) ELSE 0)
    + (IF "mac_key" \in DOMAIN m THEN StrLen(7) + BinLen(32) ELSE 0)

\* byte length of nonce + boxed_bytes
BlobLen(b) == 24 + 16 + b[25].msg.len

HeaderLen(h) ==
    MapHdr(3) + StrLen(7) + IntLen(h.version) + StrLen(6) + BinLen(32)
    + StrLen(10) + MapHdr(Cardinality(DOMAIN h.recipients))
    + SumOver([r \in DOMAIN h.recipients |->
                 BinLen(32) + BinLen(BlobLen(h.recipients[r]))],
              DOMAIN h.recipients)

ChunkLen(c) ==
    MapHdr(Cardinality(DOMAIN c)) + StrLen(5)
    + BinLen(16 + Len(c.chunk[1].msg))
    + (IF "macs" \in DOMAIN c
       THEN StrLen(4) + MapHdr(Len(c.macs))
            + SumOver([g \in 1..Len(c.macs) |-> BinLen(c.macs[g].hlen)],
                      1..Len(c.macs))
       ELSE 0)

\* umsgpack.packb of a map, and of an integer
packb_keymap(m) == [kind |-> "msgpack", obj |-> m, len |-> KeyMapLen(m)]

packb(obj) ==
    [kind |-> "msgpack", obj |-> obj,
     len |-> IF "version" \in DOMAIN obj THEN HeaderLen(obj)
             ELSE ChunkLen(obj)]

packb_int(n) == [kind |-> "msgpack", obj |-> n, len |-> IntLen(n)]

write_framed_msgpack(stream, obj) ==
    LET msgpack_bytes == packb(obj)
        frame == packb_int(msgpack_bytes.len)
    IN  stream \o <<frame, msgpack_bytes>>

\* ------------------------------------------------------------------- encode
\* MACs as soon as there is one group
need_macs_at_one(recipient_groups) == Len(recipient_groups) >= 1

need_macs_of(recipient_groups) == Len(recipient_groups) > 1

\* the (groupnum, recipient) pairs in the order the two loops visit them
RECURSIVE visits(_, _)
visits(recipient_groups, groupnum) ==
    IF groupnum >= Len(recipient_groups) THEN <<>>
    ELSE [j \in 1..Len(recipient_groups[groupnum + 1]) |->
             [groupnum |-> groupnum,
              recipient |-> recipient_groups[groupnum + 1][j]]]
         \o visits(recipient_groups, groupnum + 1)

\* position in the random source: the session key is draw 0, then each group
\* draws its MAC key (if needed) before its recipients draw their nonces
mac_key_draw(recipient_groups, groupnum) ==
    1 + groupnum + Len(visits(SubSeq(recipient_groups, 1, groupnum), 0))

nonce_draw(recipient_groups, t) ==
    LET v == visits(recipient_groups, 0)
    IN  t + (IF need_macs_of(recipient_groups) THEN v[t].groupnum + 1 ELSE 0)

\* one MAC key drawn before the loop and shared by every group
encode_one_mac_key(recipient_groups, e) ==
    IF need_macs_of(recipient_groups)
    THEN [g \in 1..Len(recipient_groups) |-> random_key(e, 1)]
    ELSE <<>>

encode_mac_keys(recipient_groups, e) ==
    IF need_macs_of(recipient_groups)
    THEN [g \in 1..Len(recipient_groups) |->
             random_key(e, mac_key_draw(recipient_groups, g - 1))]
    ELSE <<>>

\* the group index counted from one
per_recipient_map_one_based(recipient_groups, e, groupnum) ==
    IF need_macs_of(recipient_groups)
    THEN [session_key |-> random_key(e, 0),
          mac_group |-> groupnum + 1,
          mac_key |-> encode_mac_keys(recipient_groups, e)[groupnum + 1]]
    ELSE [session_key |-> random_key(e, 0)]

per_recipient_map_of(recipient_groups, e, groupnum) ==
    IF need_macs_of(recipient_groups)
    THEN [session_key |-> random_key(e, 0),
          mac_group |-> groupnum,
          mac_key |-> encode_mac_keys(recipient_groups, e)[groupnum + 1]]
    ELSE [session_key |-> random_key(e, 0)]

\* an entry the map already has is kept: the first group listing a key wins
RECURSIVE encode_recipients_first(_, _, _, _)
encode_recipients_first(sender_priv, recipient_groups, e, t) ==
    IF t = 0 THEN << >>
    ELSE LET v == visits(recipient_groups, 0)[t]
             prev == encode_recipients_first(sender_priv, recipient_groups, e,
                                             t - 1)
             nonce == random_nonce(e, nonce_draw(recipient_groups, t))
             boxed_bytes ==
                 crypto_box(packb_keymap(per_recipient_map_of(
                                recipient_groups, e, v.groupnum)),
                            nonce, sender_priv, v.recipient)
         IN  [r \in DOMAIN prev \cup {v.recipient} |->
                 IF r \in DOMAIN prev THEN prev[r] ELSE nonce \o boxed_bytes]

RECURSIVE encode_recipients(_, _, _, _)
encode_recipients(sender_priv, recipient_groups, e, t) ==
    IF t = 0 THEN << >>
    ELSE LET v == visits(recipient_groups, 0)[t]
             prev == encode_recipients(sender_priv, recipient_groups, e, t - 1)
             nonce == random_nonce(e, nonce_draw(recipient_groups, t))
             boxed_bytes ==
                 crypto_box(packb_keymap(per_recipient_map_of(
                                recipient_groups, e, v.groupnum)),
                            nonce, sender_priv, v.recipient)
         IN  [r \in DOMAIN prev \cup {v.recipient} |->
                 IF r = v.recipient THEN nonce \o boxed_bytes ELSE prev[r]]

\* the map is started anew for each group: only the last group's entries stay
encode_header_last_group(sender_priv, recipient_groups, e) ==
    LET all == encode_recipients(sender_priv, recipient_groups, e,
                   Len(visits(recipient_groups, 0)))
        last == IF recipient_groups = <<>> THEN <<>>
                ELSE recipient_groups[Len(recipient_groups)]
    IN  [version |-> 1,
         sender |-> crypto_scalarmult_base(sender_priv),
         recipients |-> [r \in {last[j] : j \in 1..Len(last)} |-> all[r]]]

encode_header(sender_priv, recipient_groups, e) ==
    [version |-> 1,
     sender |-> crypto_scalarmult_base(sender_priv),
     recipients |-> encode_recipients(sender_priv, recipient_groups, e,
                        Len(visits(recipient_groups, 0)))]

\* each tag is put in front of the list instead of appended to it
encode_chunk_prepending(recipient_groups, e, chunknum, chunk) ==
    LET nonce == to_bytes(chunknum, 24)
        boxed_chunk == crypto_secretbox(chunk, nonce, random_key(e, 0))
        mac_keys == encode_mac_keys(recipient_groups, e)
    IN  IF need_macs_of(recipient_groups)
        THEN [chunk |-> boxed_chunk,
              macs |-> [g \in 1..Len(mac_keys) |->
                           chunk_mac(mac_keys[Len(mac_keys) + 1 - g], nonce,
                                     boxed_chunk)]]
        ELSE [chunk |-> boxed_chunk]

encode_chunk(recipient_groups, e, chunknum, chunk) ==
    LET nonce == to_bytes(chunknum, 24)
        boxed_chunk == crypto_secretbox(chunk, nonce, random_key(e, 0))
        mac_keys == encode_mac_keys(recipient_groups, e)
    IN  IF need_macs_of(recipient_groups)
        THEN [chunk |-> boxed_chunk,
              macs |-> [g \in 1..Len(mac_keys) |->
                           chunk_mac(mac_keys[g], nonce, boxed_chunk)]]
        ELSE [chunk |-> boxed_chunk]

RECURSIVE encode_chunks(_, _, _, _, _)
encode_chunks(stream, recipient_groups, e, chunks, n) ==
    IF n = 0 THEN stream
    ELSE write_framed_msgpack(
             encode_chunks(stream, recipient_groups, e, chunks, n - 1),
             encode_chunk(recipient_groups, e, n - 1, chunks[n]))

encode(sender_priv, recipient_groups, msg, e) ==
    LET chunks == chunks_with_empty(msg)
    IN  encode_chunks(
            write_framed_msgpack(<<>>,
                encode_header(sender_priv, recipient_groups, e)),
            recipient_groups, e, chunks, Len(chunks))

\* ---------------------------------------------------------------- the state
VARIABLES
    pc,                \* "idle", "encoded", "header", "chunks", "returned", "failed"
    sender_private,    \* encode's arguments
    recipient_groups,
    message,
    entropy,           \* state of the random source encode drew from
    input,             \* decode's first argument, as it arrived
    tamper,            \* what happened to the bytes on the way
    recipient_private, \* decode's second argument
    stream_pos,        \* objects consumed from the stream
    session_key,       \* decode's locals
    mac_key,
    mac_group,
    chunknum,
    output,
    result,            \* what decode handed back to its caller
    err,               \* the exception that left decode, and the line raising it
    err_line,
    opened             \* chunk frames handed to crypto_secretbox_open

encVars == <<sender_private, recipient_groups, message, entropy>>
decVars == <<recipient_private, stream_pos, session_key, mac_key, mac_group,
             chunknum, output, result, err, err_line, opened>>
vars == <<pc, encVars, input, tamper, decVars>>

NoResult == [returned |-> FALSE, value |-> <<>>]
NoTamper == [kind |-> "none", chunk |-> 0, group |-> 0, who |-> 0]

\* ------------------------------------------------------------------- inputs
Message(n) == [i \in 1..n |-> (i * 3) % 256]

\* empty, shorter than a chunk (the one of main), exactly a chunk, and
\* several chunks with a short last one
MessageLengths ==
    {0, 39, chunk_size, MaxFullChunks * chunk_size + chunk_size \div 2}

Recipients == {max_public, chris_public}

RECURSIVE SeqsUpTo(_, _)
SeqsUpTo(S, n) ==
    IF n = 0 THEN {<<>>}
    ELSE LET shorter == SeqsUpTo(S, n - 1)
         IN  shorter \cup {Append(s, x) : s \in shorter, x \in S}

\* the sender may also be a recipient: one list with a group of two and a
\* group of one, all three keys different
RecipientGroupLists ==
    {gs \in SeqsUpTo(SeqsUpTo(Recipients, MaxRecipients), MaxGroups) :
        Len(visits(gs, 0)) <= MaxRecipients}
    \cup {<<<<max_public, chris_public>>, <<jack_public>>>>}

\* the states the random source may be in when encode is called
RandomSources == {0, 1}

Init ==
    /\ pc = "idle"
    /\ sender_private = jack_private
    /\ recipient_groups = <<>>
    /\ message = <<>>
    /\ entropy = 0
    /\ input = <<>>
    /\ tamper = NoTamper
    /\ recipient_private = jack_private
    /\ stream_pos = 0
    /\ session_key = None
    /\ mac_key = None
    /\ mac_group = None
    /\ chunknum = 0
    /\ output = <<>>
    /\ result = NoResult
    /\ err = "none"
    /\ err_line = 0
    /\ opened = {}

\* output = encode(sender_private, recipient_groups, message)
Encode ==
    /\ pc = "idle"
    /\ \E sp \in {jack_private}, gs \in RecipientGroupLists,
          n \in MessageLengths, e \in RandomSources :
          /\ sender_private' = sp
          /\ recipient_groups' = gs
          /\ message' = Message(n)
          /\ entropy' = e
          /\ input' = encode(sp, gs, Message(n), e)
    /\ pc' = "encoded"
    /\ UNCHANGED <<tamper, decVars>>

\* -------------------------------------------- the bytes on their way to decode
\* decode takes whatever bytes arrive.  Each action below alters the output of
\* encode once, the way the party named in it can.
NumChunkFrames == Len(input) \div 2 - 1
ChunkItem(k) == 2 * k + 4

Tampered(t, bytes) ==
    /\ tamper' = t
    /\ input' = bytes
    /\ UNCHANGED <<pc, encVars, decVars>>

\* replace the payload of frame k (0 is the header) and its length prefix
ReplaceFrame(k, obj) ==
    SubSeq(input, 1, 2 * k) \o write_framed_msgpack(<<>>, obj)
    \o SubSeq(input, 2 * k + 3, Len(input))

\* a bit of the ciphertext of chunk k is flipped
FlipChunk ==
    /\ pc = "encoded" /\ tamper = NoTamper
    /\ \E k \in 0..(NumChunkFrames - 1) :
           Tampered([kind |-> "flip", chunk |-> k, group |-> 0, who |-> 0],
                    [input EXCEPT ![ChunkItem(k)].obj.chunk[1].flip = 1])

\* a member of group g, who holds the session key and the MAC key of g,
\* replaces chunk k by one of its own making
ForgeChunk ==
    /\ pc = "encoded" /\ tamper = NoTamper
    /\ \E k \in 0..(NumChunkFrames - 1), g \in 0..(Len(recipient_groups) - 1),
          fresh \in BOOLEAN :
           LET nonce == to_bytes(k, 24)
               plain == IF fresh THEN <<66>>
                        ELSE crypto_open(input[ChunkItem(k)].obj.chunk)
               boxed_chunk == crypto_secretbox(plain, nonce, random_key(entropy, 0))
               forger_key == encode_mac_keys(recipient_groups, entropy)[g + 1]
           IN  /\ need_macs_of(recipient_groups)
               /\ Tampered([kind |-> "forge", chunk |-> k, group |-> g, who |-> 0],
                      ReplaceFrame(k + 1,
                          [chunk |-> boxed_chunk,
                           macs |-> [j \in 1..Len(recipient_groups) |->
                                        chunk_mac(forger_key, nonce, boxed_chunk)]]))

\* bytes follow the terminal chunk frame
AppendBytes ==
    /\ pc = "encoded" /\ tamper = NoTamper
    /\ \E what \in {"garbage", "partial", "replay"} :
           Tampered([kind |-> "append", chunk |-> NumChunkFrames, group |-> 0,
                     who |-> 0],
                    input \o (IF what = "replay" THEN SubSeq(input, 3, Len(input))
                              ELSE <<[kind |-> what, obj |-> 0, len |-> 1]>>))

\* the stream ends early, between two objects or inside one
Truncate ==
    /\ pc = "encoded" /\ tamper = NoTamper
    /\ \E n \in 0..(Len(input) - 1), inside \in BOOLEAN :
           Tampered([kind |-> "truncate", chunk |-> (n + 1) \div 2 - 1,
                     group |-> 0, who |-> 0],
                    SubSeq(input, 1, n)
                    \o (IF inside THEN <<[kind |-> "partial", obj |-> 0, len |-> 1]>>
                        ELSE <<>>))

\* the sealed blob of one recipient is altered: a nonce byte or the ciphertext
AlterBlob ==
    /\ pc = "encoded" /\ tamper = NoTamper
    /\ \E rp \in PrivateKeys, at \in {1, 24, 25} :
           LET r == crypto_scalarmult_base(rp)
               blob == input[2].obj.recipients[r]
           IN  /\ r \in DOMAIN input[2].obj.recipients
               /\ Tampered([kind |-> "blob", chunk |-> at, group |-> 0, who |-> rp],
                      [input EXCEPT ![2].obj.recipients[r] =
                          IF at = 25 THEN [blob EXCEPT ![25].flip = 1]
                          ELSE [blob EXCEPT ![at] = (blob[at] + 1) % 256]])

\* the header names another sender
AlterSender ==
    /\ pc = "encoded" /\ tamper = NoTamper
    /\ \E sp \in PrivateKeys \ {sender_private} :
           Tampered([kind |-> "sender", chunk |-> 0, group |-> 0, who |-> sp],
                    [input EXCEPT ![2].obj.sender = crypto_scalarmult_base(sp)])

\* someone other than the header's sender seals a blob of its own for a recipient
Reseal ==
    /\ pc = "encoded" /\ tamper = NoTamper
    /\ \E rp \in PrivateKeys, sp \in PrivateKeys \ {sender_private} :
           LET r == crypto_scalarmult_base(rp)
               nonce == random_nonce(2, 0)
               header_map == input[2].obj
           IN  /\ r \in DOMAIN header_map.recipients
               /\ Tampered([kind |-> "reseal", chunk |-> 0, group |-> 0, who |-> rp],
                      ReplaceFrame(0,
                          [header_map EXCEPT !.recipients[r] =
                              nonce \o crypto_box(
                                  packb_keymap([session_key |->
                                      random_key(2, 0)]),
                                  nonce, sp, r)]))

\* the two items of chunk frame k as they are on the stream
FrameItems(k) == SubSeq(input, ChunkItem(k) - 1, ChunkItem(k))

\* chunk frames i and j change places
SwapFrames ==
    /\ pc = "encoded" /\ tamper = NoTamper
    /\ \E i, j \in 0..(NumChunkFrames - 1) :
           /\ i < j
           /\ Tampered([kind |-> "swap", chunk |-> i, group |-> j, who |-> 0],
                  SubSeq(input, 1, ChunkItem(i) - 2) \o FrameItems(j)
                  \o SubSeq(input, ChunkItem(i) + 1, ChunkItem(j) - 2)
                  \o FrameItems(i)
                  \o SubSeq(input, ChunkItem(j) + 1, Len(input)))

\* chunk frame k is on the stream twice in a row
DuplicateFrame ==
    /\ pc = "encoded" /\ tamper = NoTamper
    /\ \E k \in 0..(NumChunkFrames - 1) :
           Tampered([kind |-> "duplicate", chunk |-> k, group |-> 0, who |-> 0],
               SubSeq(input, 1, ChunkItem(k)) \o FrameItems(k)
               \o SubSeq(input, ChunkItem(k) + 1, Len(input)))

\* chunk frame k is taken out of the stream
DeleteFrame ==
    /\ pc = "encoded" /\ tamper = NoTamper
    /\ \E k \in 0..(NumChunkFrames - 1) :
           Tampered([kind |-> "delete", chunk |-> k, group |-> 0, who |-> 0],
               SubSeq(input, 1, ChunkItem(k) - 2)
               \o SubSeq(input, ChunkItem(k) + 1, Len(input)))

\* the payloads of a stream, the header first, each framed anew
RECURSIVE Reframed(_)
Reframed(objs) ==
    IF objs = <<>> THEN <<>>
    ELSE write_framed_msgpack(<<>>, Head(objs)) \o Reframed(Tail(objs))

\* the sender sends the same message to its one group with MACs forced on: every
\* sealed payload also carries mac_group 0 and a MAC key, every chunk one tag
ForceMacs ==
    /\ pc = "encoded" /\ tamper = NoTamper
    /\ Len(recipient_groups) = 1
    /\ LET forced_key == random_key(2, 1)
           forced(k, obj) ==
               IF k = 0
               THEN [obj EXCEPT !.recipients =
                        [r \in DOMAIN obj.recipients |->
                            LET nonce == SubSeq(obj.recipients[r], 1, 24)
                            IN  nonce \o crypto_box(
                                    packb_keymap(
                                        [session_key |-> random_key(entropy, 0),
                                         mac_group |-> 0,
                                         mac_key |-> forced_key]),
                                    nonce, sender_private, r)]]
               ELSE [chunk |-> obj.chunk,
                     macs |-> <<chunk_mac(forced_key, to_bytes(k - 1, 24),
                                          obj.chunk)>>]
       IN  Tampered([kind |-> "macs", chunk |-> 0, group |-> 0, who |-> 0],
                    Reframed([i \in 1..(NumChunkFrames + 1) |->
                                 forced(i - 1, input[2 * i].obj)]))

\* the length prefix of frame f (0 is the header) is replaced by another
\* serialized integer
RewritePrefix ==
    /\ pc = "encoded" /\ tamper = NoTamper
    /\ \E f \in 0..NumChunkFrames, length \in {0, 70000} :
          /\ input[2 * f + 1].obj # length
          /\ Tampered([kind |-> "prefix", chunk |-> f, group |-> length,
                        who |-> 0],
                       [input EXCEPT ![2 * f + 1] = packb_int(length)])

\* chunk frame k loses its macs field (keep = -1) or all its tags but the first
\* keep; its ciphertext is left as it is
StripMacs ==
    /\ pc = "encoded" /\ tamper = NoTamper
    /\ need_macs_of(recipient_groups)
    /\ \E k \in 0..(NumChunkFrames - 1),
          keep \in (-1)..(Len(recipient_groups) - 1) :
          LET obj == input[ChunkItem(k)].obj
          IN  Tampered([kind |-> "downgrade", chunk |-> k, group |-> keep,
                        who |-> 0],
                  ReplaceFrame(k + 1,
                      IF keep = -1 THEN [chunk |-> obj.chunk]
                      ELSE [obj EXCEPT !.macs = SubSeq(obj.macs, 1, keep)])
                  \o SubSeq(input, ChunkItem(k) + 1, Len(input)))

\* bytes of the given length that are the tag of nothing
JunkTag(length) == [hkey |-> None, hdata |-> <<>>, hlen |-> length]

\* in every chunk frame, every tag but the one at position g (from 0) is
\* replaced by other bytes, of the length of a tag, shorter or longer
ReplaceOtherTags ==
    /\ pc = "encoded" /\ tamper = NoTamper
    /\ need_macs_of(recipient_groups)
    /\ \E g \in 0..(Len(recipient_groups) - 1), length \in {0, 32, 33} :
          LET replaced(k, obj) ==
                  IF k = 0 THEN obj
                  ELSE [obj EXCEPT !.macs =
                           [i \in 1..Len(obj.macs) |->
                               IF i = g + 1 THEN obj.macs[i]
                               ELSE JunkTag(length)]]
          IN  Tampered([kind |-> "othertags", chunk |-> length, group |-> g,
                        who |-> 0],
                       Reframed([i \in 1..(NumChunkFrames + 1) |->
                                    replaced(i - 1, input[2 * i].obj)]))

\* ------------------------------------------------------------------- decode
\* umsgpack.unpack(stream) succeeds on a whole serialized object
can_unpack(pos) == pos < Len(input) /\ input[pos + 1].kind = "msgpack"

\* the object is taken only if it is as long as the prefix says
can_read_frame_checked(pos) ==
    /\ can_unpack(pos)
    /\ can_unpack(pos + 1)
    /\ input[pos + 1].obj = input[pos + 2].len

\* read_framed_msgpack: the length is unpacked and discarded, then the object
can_read_frame(pos) == can_unpack(pos) /\ can_unpack(pos + 1)
read_frame(pos) == input[pos + 2].obj

\* what umsgpack raises when no whole object can be unpacked: the stream ended,
\* at once or inside an object, or the bytes are no serialized object
unpack_error(pos) ==
    LET at == IF can_unpack(pos) THEN pos + 1 ELSE pos
    IN  IF at >= Len(input) \/ input[at + 1].kind = "partial"
        THEN "InsufficientDataException"
        ELSE "UnpackException"

\* the sender is taken to be the hardcoded one
header_sender_fixed(header_map) == jack_public

\* line 147: the sender the header names
header_sender(header_map) == header_map.sender

\* an absent recipient is given some other recipient's blob
find_recipient_any(header_map, recipient_public) ==
    IF recipient_public \in DOMAIN header_map.recipients
    THEN [found |-> TRUE, blob |-> header_map.recipients[recipient_public]]
    ELSE IF DOMAIN header_map.recipients # {}
    THEN [found |-> TRUE,
          blob |-> header_map.recipients[
                       CHOOSE r \in DOMAIN header_map.recipients : TRUE]]
    ELSE [found |-> FALSE, blob |-> <<>>]

\* line 149: header_map['recipients'][recipient_public]
find_recipient(header_map, recipient_public) ==
    IF recipient_public \in DOMAIN header_map.recipients
    THEN [found |-> TRUE, blob |-> header_map.recipients[recipient_public]]
    ELSE [found |-> FALSE, blob |-> <<>>]

\* the chunk index in little-endian byte order
RECURSIVE to_bytes_little(_, _)
to_bytes_little(n, length) ==
    IF length = 0 THEN <<>>
    ELSE <<n % 256>> \o to_bytes_little(n \div 256, length - 1)

decode_nonce_little(n) == to_bytes_little(n, 24)

\* line 163: the nonce of the chunk at position chunknum
decode_nonce(n) == to_bytes(n, 24)

\* the MAC check is never made
mac_never_needed(mk) == FALSE

\* line 167: if mac_key is not None
mac_needed(mk) == mk # None

\* the tag after the recipient's own is taken
mac_index_next(mg) == mg + 2

\* the first tag is checked whatever the group
mac_index_first(mg) == 1

\* line 168: chunk_map['macs'][mac_group], Python counting from zero
mac_index(mg) == mg + 1

\* a chunk without a tag for the group is taken as a chunk without MACs
mac_check_lenient(chunk_map, mk, mg, nonce) ==
    IF ~mac_needed(mk) THEN "skipped"
    ELSE IF "macs" \notin DOMAIN chunk_map THEN "skipped"
    ELSE IF mac_index(mg) > Len(chunk_map.macs) THEN "skipped"
    ELSE IF ~compare_digest(chunk_map.macs[mac_index(mg)],
                            chunk_mac(mk, nonce, chunk_map.chunk))
    THEN "RuntimeError"
    ELSE "passed"

\* lines 167-174: the MAC check of one chunk and how it ends
mac_check(chunk_map, mk, mg, nonce) ==
    IF ~mac_needed(mk) THEN "skipped"
    ELSE IF "macs" \notin DOMAIN chunk_map THEN "KeyError"
    ELSE IF mac_index(mg) > Len(chunk_map.macs) THEN "IndexError"
    ELSE IF ~compare_digest(chunk_map.macs[mac_index(mg)],
                            chunk_mac(mk, nonce, chunk_map.chunk))
    THEN "RuntimeError"
    ELSE "passed"

\* the stream is left where it was
after_frame_same(pos) == pos

\* read_framed_msgpack leaves the stream after the two objects it unpacked
after_frame(pos) == pos + 2

\* the increment is forgotten
next_chunknum_same(n) == n

\* line 184: chunknum += 1
next_chunknum(n) == n + 1

\* the empty chunk is not taken as the end
never_terminal(chunk) == FALSE

\* line 181: if chunk == b''
is_terminal(chunk) == chunk = <<>>

\* a failure hands back what was decoded so far
Raise_partial(e, line) ==
    /\ pc' = "failed"
    /\ err' = e
    /\ err_line' = line
    /\ result' = [returned |-> TRUE, value |-> output]

\* an exception leaves decode; nothing is returned
Raise(e, line) ==
    /\ pc' = "failed"
    /\ err' = e
    /\ err_line' = line
    /\ result' = NoResult

\* decode(input, recipient_private) is called
CallDecode ==
    /\ pc = "encoded"
    /\ \E rp \in PrivateKeys : recipient_private' = rp
    /\ pc' = "header"
    /\ stream_pos' = 0
    /\ UNCHANGED <<encVars, input, tamper, session_key, mac_key, mac_group,
                   chunknum, output, result, err, err_line, opened>>

\* lines 146-161: the header frame, the recipient's sealed keys
DecodeHeader ==
    /\ pc = "header"
    /\ LET header_map == read_frame(stream_pos)
           sender_public == header_sender(header_map)
           recipient_public == crypto_scalarmult_base(recipient_private)
           boxed_key_map == find_recipient(header_map, recipient_public).blob
           ciphertext == SubSeq(boxed_key_map, 25, Len(boxed_key_map))
           nonce == SubSeq(boxed_key_map, 1, 24)
           key_map == crypto_open(ciphertext).obj
       IN  IF ~can_read_frame(stream_pos)
           THEN /\ Raise(unpack_error(stream_pos), 146)
                /\ UNCHANGED <<stream_pos, session_key, mac_key, mac_group>>
           ELSE IF "sender" \notin DOMAIN header_map
           THEN /\ Raise("KeyError", 147)
                /\ stream_pos' = after_frame(stream_pos)
                /\ UNCHANGED <<session_key, mac_key, mac_group>>
           ELSE IF "recipients" \notin DOMAIN header_map
                   \/ ~find_recipient(header_map, recipient_public).found
           THEN /\ Raise("KeyError", 149)
                /\ stream_pos' = after_frame(stream_pos)
                /\ UNCHANGED <<session_key, mac_key, mac_group>>
           ELSE IF ~crypto_box_opens(ciphertext, nonce, recipient_private,
                                     sender_public)
           THEN /\ Raise("CryptoError", 150)
                /\ stream_pos' = after_frame(stream_pos)
                /\ UNCHANGED <<session_key, mac_key, mac_group>>
           ELSE IF "session_key" \notin DOMAIN key_map
           THEN /\ Raise("KeyError", 157)
                /\ stream_pos' = after_frame(stream_pos)
                /\ UNCHANGED <<session_key, mac_key, mac_group>>
           ELSE /\ stream_pos' = after_frame(stream_pos)
                /\ session_key' = key_map.session_key
                /\ mac_key' = IF "mac_key" \in DOMAIN key_map
                              THEN key_map.mac_key ELSE None
                /\ mac_group' = IF "mac_group" \in DOMAIN key_map
                                THEN key_map.mac_group ELSE None
                /\ pc' = "chunks"
                /\ UNCHANGED <<result, err, err_line>>
    /\ chunknum' = 0
    /\ output' = <<>>
    /\ UNCHANGED <<encVars, input, tamper, recipient_private, opened>>

\* lines 163-185: one pass of the chunk loop, and the return after its break
DecodeChunk ==
    /\ pc = "chunks"
    /\ LET nonce == decode_nonce(chunknum)
           chunk_map == read_frame(stream_pos)
           boxed_chunk == chunk_map.chunk
           checked == mac_check(chunk_map, mac_key, mac_group, nonce)
           chunk == crypto_open(boxed_chunk)
           frame == stream_pos \div 2 - 1
       IN  IF ~can_read_frame(stream_pos)
           THEN /\ Raise(unpack_error(stream_pos), 164)
                /\ UNCHANGED <<stream_pos, opened, output, chunknum>>
           ELSE IF "chunk" \notin DOMAIN chunk_map
           THEN /\ Raise("KeyError", 165)
                /\ stream_pos' = after_frame(stream_pos)
                /\ UNCHANGED <<opened, output, chunknum>>
           ELSE IF checked \in {"KeyError", "IndexError"}
           THEN /\ Raise(checked, 168)
                /\ stream_pos' = after_frame(stream_pos)
                /\ UNCHANGED <<opened, output, chunknum>>
           ELSE IF checked = "RuntimeError"
           THEN /\ Raise("RuntimeError", 174)
                /\ stream_pos' = after_frame(stream_pos)
                /\ UNCHANGED <<opened, output, chunknum>>
           ELSE IF ~crypto_secretbox_opens(boxed_chunk, nonce, session_key)
           THEN /\ Raise("CryptoError", 176)
                /\ stream_pos' = after_frame(stream_pos)
                /\ opened' = opened \cup {frame}
                /\ UNCHANGED <<output, chunknum>>
           ELSE IF is_terminal(chunk)
           THEN /\ pc' = "returned"
                /\ result' = [returned |-> TRUE, value |-> output]
                /\ stream_pos' = after_frame(stream_pos)
                /\ opened' = opened \cup {frame}
                /\ UNCHANGED <<output, chunknum, err, err_line>>
           ELSE /\ pc' = "chunks"
                /\ output' = output \o chunk
                /\ chunknum' = next_chunknum(chunknum)
                /\ stream_pos' = after_frame(stream_pos)
                /\ opened' = opened \cup {frame}
                /\ UNCHANGED <<result, err, err_line>>
    /\ UNCHANGED <<encVars, input, tamper, recipient_private, session_key,
                   mac_key, mac_group>>

Next ==
    \/ Encode
    \/ FlipChunk
    \/ ForgeChunk
    \/ AppendBytes
    \/ Truncate
    \/ AlterBlob
    \/ AlterSender
    \/ Reseal
    \/ ForceMacs
    \/ SwapFrames
    \/ DuplicateFrame
    \/ DeleteFrame
    \/ ReplaceOtherTags
    \/ RewritePrefix
    \/ StripMacs
    \/ CallDecode
    \/ DecodeHeader
    \/ DecodeChunk

Spec == Init /\ [][Next]_vars

\* the streams that lack a frame or go on after the last one, and their decode
NextShortened ==
    \/ Encode
    \/ DeleteFrame
    \/ AppendBytes
    \/ CallDecode
    \/ DecodeHeader
    \/ DecodeChunk

\* decode is one sequential call: once it is entered, its next statement runs
FairSpec ==
    /\ Init /\ [][NextShortened]_vars
    /\ WF_vars(DecodeHeader) /\ WF_vars(DecodeChunk)

\* ------------------------------------------------------------ the properties
Finished == pc \in {"returned", "failed"}
HeaderDone == pc \in {"chunks", "returned", "failed"}
Untouched == tamper = NoTamper
MacsActive == need_macs_of(recipient_groups)

\* the header frame arrived whole
HeaderArrived ==
    /\ Len(input) >= 2
    /\ input[1].kind = "msgpack"
    /\ input[2].kind = "msgpack"

\* the decoder's public key is a key of the header's recipients map
KnownRecipient ==
    /\ HeaderArrived
    /\ crypto_scalarmult_base(recipient_private) \in DOMAIN input[2].obj.recipients

Members(group) == {group[j] : j \in 1..Len(group)}

\* each public key is in exactly one group
DisjointGroups ==
    \A g1, g2 \in 1..Len(recipient_groups) :
        g1 # g2 => Members(recipient_groups[g1]) \cap Members(recipient_groups[g2]) = {}

\* the plaintext sealed in chunk frame k of the stream
Plain(k) == input[ChunkItem(k)].obj.chunk[1].msg

RECURSIVE PlainUpTo(_)
PlainUpTo(k) == IF k = 0 THEN <<>> ELSE PlainUpTo(k - 1) \o Plain(k - 1)

\* the spec's names for the failures of decode
UnknownRecipient == pc = "failed" /\ err = "KeyError" /\ err_line = 149
HeaderAuthenticationFailure ==
    pc = "failed" /\ err = "CryptoError" /\ err_line = 150
MacAuthenticationFailure ==
    pc = "failed" /\ err = "RuntimeError" /\ err_line = 174
DecryptionFailure == pc = "failed" /\ err = "CryptoError" /\ err_line = 176
MalformedFrame ==
    /\ pc = "failed"
    /\ err \in {"InsufficientDataException", "UnpackException"}
    /\ err_line \in {146, 164}

\* C1: round trip, single group.  A message encoded for the one recipient of
\* one group and decoded by that recipient, untouched on the way, comes back
\* exactly, whatever its length; the decode does not fail.
C1_RoundTripSingle ==
    (/\ Finished /\ Untouched
     /\ Len(recipient_groups) = 1
     /\ recipient_groups[1] = <<crypto_scalarmult_base(recipient_private)>>)
    => (pc = "returned" /\ result = [returned |-> TRUE, value |-> message])

C1_Witness ==
    /\ pc = "returned" /\ Untouched
    /\ Len(recipient_groups) = 1
    /\ recipient_groups[1] = <<crypto_scalarmult_base(recipient_private)>>
    /\ Len(message) > chunk_size
    /\ result.value = message

\* C2: round trip, several groups.  With two or more groups and every public
\* key in exactly one of them, every recipient of every group decodes the same
\* untouched stream to exactly the message, and its MAC check passed on every
\* chunk frame, the terminal one too (each was handed on to decryption).
C2_RoundTripGroups ==
    (/\ Finished /\ Untouched
     /\ Len(recipient_groups) >= 2
     /\ DisjointGroups
     /\ KnownRecipient)
    => (/\ pc = "returned"
        /\ result = [returned |-> TRUE, value |-> message]
        /\ mac_key # None
        /\ opened = 0..(NumChunkFrames - 1))

C2_Witness ==
    /\ pc = "returned" /\ Untouched
    /\ Len(recipient_groups) >= 2
    /\ DisjointGroups
    /\ KnownRecipient
    /\ mac_group = 1
    /\ Len(message) > chunk_size
    /\ result.value = message

C4_UnknownRecipient ==
    (HeaderDone /\ HeaderArrived /\ ~KnownRecipient)
    => (/\ UnknownRecipient
        /\ stream_pos = 2
        /\ opened = {}
        /\ result.returned = FALSE)

C4_Witness ==
    /\ UnknownRecipient
    /\ DOMAIN input[2].obj.recipients # {}
    /\ Len(input) > 2
    /\ stream_pos = 2

\* C5: tamper detection.  After a bit flip in the ciphertext of chunk k, a
\* recipient's decode does not return: with MACs active it fails at chunk k on
\* the MAC comparison and chunk k is never handed to decryption; with MACs
\* inactive it fails at chunk k in the symmetric decryption.
C5_TamperDetection ==
    (tamper.kind = "flip" /\ KnownRecipient)
    => (/\ pc # "returned"
        /\ MacsActive => tamper.chunk \notin opened
        /\ pc = "failed" =>
              /\ stream_pos = ChunkItem(tamper.chunk)
              /\ IF MacsActive THEN MacAuthenticationFailure
                 ELSE DecryptionFailure)

C5_Witness ==
    /\ tamper.kind = "flip" /\ KnownRecipient
    /\ tamper.chunk > 0
    /\ MacsActive
    /\ MacAuthenticationFailure
    /\ opened = 0..(tamper.chunk - 1)

\* C6: multi-group authentication.  A chunk made by a member of group g (valid
\* under the session key, every tag computed with the MAC key of g) is never
\* handed to decryption by a recipient holding another group's MAC key: that
\* decode fails on the MAC comparison at that chunk and does not return.
C6_ForeignGroupRejected ==
    (tamper.kind = "forge" /\ mac_key # None /\ mac_group # tamper.group)
    => (/\ pc # "returned"
        /\ tamper.chunk \notin opened
        /\ pc = "failed" =>
              /\ MacAuthenticationFailure
              /\ stream_pos = ChunkItem(tamper.chunk))

C6_Witness ==
    /\ tamper.kind = "forge" /\ mac_key # None /\ mac_group # tamper.group
    /\ MacAuthenticationFailure
    /\ crypto_secretbox_opens(input[ChunkItem(tamper.chunk)].obj.chunk,
                              to_bytes(tamper.chunk, 24), session_key)
    /\ Plain(tamper.chunk) = <<66>>

\* C7: chunk sequence shape.  After the header frame encode emits
\* ceil(n/100) + 1 chunk frames for a message of n bytes; every frame but the
\* last holds between 1 and 100 bytes, only the last real one may hold fewer
\* than 100, the real chunks in order make up the message, and the last frame,
\* and no other, holds the empty plaintext.
C7_ChunkShape ==
    (pc = "encoded" /\ Untouched)
    => LET n == Len(message)
           real == (n + chunk_size - 1) \div chunk_size
       IN  /\ NumChunkFrames = real + 1
           /\ \A k \in 0..(real - 1) :
                 /\ Len(Plain(k)) >= 1
                 /\ Len(Plain(k)) <= chunk_size
                 /\ k < real - 1 => Len(Plain(k)) = chunk_size
           /\ PlainUpTo(real) = message
           /\ Plain(real) = <<>>

C7_Witness ==
    /\ pc = "encoded" /\ Untouched
    /\ Len(message) = 250
    /\ NumChunkFrames = 4
    /\ Len(Plain(0)) = 100 /\ Len(Plain(1)) = 100 /\ Len(Plain(2)) = 50
    /\ Plain(3) = <<>>

\* C8: decode stops at the terminal chunk.  Whatever bytes follow the terminal
\* chunk frame of a valid stream, a recipient's decode returns the message,
\* does not fail, and reads nothing past the terminal frame.
C8_StopsAtTerminal ==
    (tamper.kind = "append" /\ KnownRecipient)
    => (/\ stream_pos <= 2 * tamper.chunk + 2
        /\ Finished =>
              /\ pc = "returned"
              /\ result = [returned |-> TRUE, value |-> message]
              /\ stream_pos = 2 * tamper.chunk + 2)

C8_Witness ==
    /\ tamper.kind = "append" /\ KnownRecipient
    /\ pc = "returned"
    /\ Len(input) > stream_pos
    /\ input[stream_pos + 1].kind = "garbage"
    /\ Len(message) > chunk_size

\* C9: header unsealing failure.  When the decoder's sealed blob was altered
\* (nonce or ciphertext), or was sealed by another private key than the header's
\* sender, or the header's sender was altered, the header step fails in
\* crypto_box_open (AuthenticationFailure): no chunk frame was read and no
\* session key was extracted.
C9_HeaderUnsealFails ==
    (/\ HeaderDone
     /\ \/ tamper.kind \in {"blob", "reseal"} /\ tamper.who = recipient_private
        \/ tamper.kind = "sender" /\ KnownRecipient)
    => (/\ HeaderAuthenticationFailure
        /\ stream_pos = 2
        /\ opened = {}
        /\ session_key = None
        /\ result.returned = FALSE)

C9_Witness ==
    /\ tamper.kind = "sender" /\ KnownRecipient
    /\ HeaderAuthenticationFailure
    /\ session_key = None
    /\ Len(input) > 2

\* C10: MAC keys are skipped with at most one group and used otherwise.  In an
\* encode output for at most one group no sealed payload holds mac_group or
\* mac_key and no chunk frame holds macs; for more than one group every sealed
\* payload holds both and every chunk frame, the terminal one too, holds macs.
C10_MacsOnlyForSeveralGroups ==
    (pc = "encoded" /\ Untouched)
    => LET recipients == input[2].obj.recipients
           sealed(r) == DOMAIN recipients[r][25].msg.obj
           frame(k) == DOMAIN input[ChunkItem(k)].obj
       IN  IF Len(recipient_groups) <= 1
           THEN /\ \A r \in DOMAIN recipients : sealed(r) = {"session_key"}
                /\ \A k \in 0..(NumChunkFrames - 1) : frame(k) = {"chunk"}
           ELSE /\ \A r \in DOMAIN recipients :
                      sealed(r) = {"session_key", "mac_group", "mac_key"}
                /\ \A k \in 0..(NumChunkFrames - 1) :
                      frame(k) = {"chunk", "macs"}

C10_Witness ==
    /\ pc = "encoded" /\ Untouched
    /\ Len(recipient_groups) = 1
    /\ Cardinality(DOMAIN input[2].obj.recipients) = 2
    /\ \A r \in DOMAIN input[2].obj.recipients :
          DOMAIN input[2].obj.recipients[r][25].msg.obj = {"session_key"}
    /\ NumChunkFrames > 1

\* C11: skip-MAC equivalence.  A single-group message without MACs and the
\* same message with MACs forced on (mac_group 0 and a MAC key in every sealed
\* payload, one tag on every chunk) decode, for every recipient of the group,
\* to the same plaintext, the message; only the second decode holds a MAC key.
C11_SkipMacEquivalence ==
    (/\ Finished
     /\ Len(recipient_groups) = 1
     /\ tamper.kind \in {"none", "macs"}
     /\ KnownRecipient)
    => (/\ pc = "returned"
        /\ result = [returned |-> TRUE, value |-> message]
        /\ (mac_key # None) <=> (tamper.kind = "macs"))

C11_Witness ==
    /\ pc = "returned"
    /\ Len(recipient_groups) = 1
    /\ tamper.kind = "macs"
    /\ KnownRecipient
    /\ mac_key # None /\ mac_group = 0
    /\ \A k \in 0..(NumChunkFrames - 1) : Len(input[ChunkItem(k)].obj.macs) = 1
    /\ Len(message) > chunk_size
    /\ result.value = message

\* C12: chunk-sequence integrity.  When chunk frames of a valid stream were
\* swapped, duplicated or deleted, or the stream was cut short, a decode that
\* returns returns exactly the message, never another plaintext and never a
\* proper prefix; a recipient's decode that fails fails on the MAC comparison,
\* in the decryption, or on a frame that cannot be unpacked.
C12_SequenceIntegrity ==
    (tamper.kind \in {"swap", "duplicate", "delete", "truncate"})
    => (/\ pc = "returned" => result = [returned |-> TRUE, value |-> message]
        /\ (pc = "failed" /\ KnownRecipient) =>
              \/ MacAuthenticationFailure
              \/ DecryptionFailure
              \/ MalformedFrame)

C12_Witness ==
    /\ tamper.kind = "delete"
    /\ KnownRecipient
    /\ tamper.chunk > 0
    /\ pc = "failed"
    /\ MacAuthenticationFailure \/ DecryptionFailure
    /\ chunknum = tamper.chunk
    /\ output # <<>> /\ output # message

\* the 24-byte big-endian encoding of a number below 65536
BigEndian24(k) ==
    [i \in 1..24 |-> IF i = 24 THEN k % 256
                     ELSE IF i = 23 THEN (k \div 256) % 256 ELSE 0]

\* the nonce under which chunk frame k of the stream was sealed
SealedNonce(k) == input[ChunkItem(k)].obj.chunk[1].nonce

C13_EncodeNonces ==
    (pc = "encoded" /\ Untouched)
    => \A k \in 0..(NumChunkFrames - 1) :
          /\ SealedNonce(k) = BigEndian24(k)
          /\ MacsActive =>
                \A g \in 1..Len(input[ChunkItem(k)].obj.macs) :
                    SubSeq(input[ChunkItem(k)].obj.macs[g].hdata, 1, 24)
                        = BigEndian24(k)

C13_DecodeIndex ==
    HeaderDone
    => (/\ pc = "chunks" => stream_pos = 2 * chunknum + 2
        /\ \A k \in 0..(chunknum - 1) :
              /\ k \in opened
              /\ Plain(k) # <<>>
              /\ SealedNonce(k) = BigEndian24(k)
        /\ \A k1, k2 \in 0..(chunknum - 1) :
              k1 # k2 => SealedNonce(k1) # SealedNonce(k2)
        /\ output = PlainUpTo(chunknum))

C13_IndexStep ==
    /\ chunknum' # chunknum =>
          /\ pc = "chunks" /\ pc' = "chunks"
          /\ chunknum' = chunknum + 1
          /\ crypto_secretbox_opens(input[ChunkItem(chunknum)].obj.chunk,
                                    BigEndian24(chunknum), session_key)
          /\ Plain(chunknum) # <<>>
          /\ output' = output \o Plain(chunknum)
    /\ (pc = "chunks" /\ output' # output) => chunknum' = chunknum + 1
    /\ (pc = "header" /\ pc' = "chunks") => (chunknum' = 0 /\ output' = <<>>)

\* C13: chunk index and nonce discipline.  encode seals (and tags) the chunk at
\* position k under the 24-byte big-endian encoding of k.  decode's index is 0
\* after the header and grows by exactly one when, and only when, a chunk
\* opened under the nonce of the index to a non-empty plaintext, which is then
\* appended; so the index is the position of the next frame and the number of
\* chunks in the output, and the chunks accepted so far all have different
\* nonces, each the encoding of its position.
C13_IndexAndNonce ==
    /\ [](C13_EncodeNonces /\ C13_DecodeIndex)
    /\ [][C13_IndexStep]_vars

C13_Witness ==
    /\ pc = "chunks" /\ Untouched
    /\ chunknum = 2
    /\ stream_pos = 6
    /\ Len(output) = 2 * chunk_size
    /\ output = PlainUpTo(2)
    /\ SealedNonce(1) = BigEndian24(1)

\* what the header entry of public key r holds once unsealed
SealedKeyMap(r) == input[2].obj.recipients[r][25].msg.obj

\* the key of the tag at position g (from 0) of chunk frame k
TagKey(k, g) == input[ChunkItem(k)].obj.macs[g + 1].hkey

\* r is not listed again in a group after group g (from 0)
LastListing(r, g) ==
    \A h \in (g + 2)..Len(recipient_groups) : r \notin Members(recipient_groups[h])

C15_OnlyOwnTag ==
    (tamper.kind = "othertags" /\ Finished)
    => /\ KnownRecipient =>
             /\ mac_key # None
             /\ mac_group = tamper.group =>
                   (pc = "returned"
                    /\ result = [returned |-> TRUE, value |-> message])
       /\ ~KnownRecipient => UnknownRecipient

C15_Witness ==
    /\ tamper.kind = "othertags" /\ pc = "returned"
    /\ tamper.group = 1 /\ mac_group = 1
    /\ tamper.chunk = 0
    /\ Len(message) > chunk_size
    /\ result.value = message
    /\ \A k \in 0..(NumChunkFrames - 1) :
          input[ChunkItem(k)].obj.macs[1] = JunkTag(0)

\* the public keys the caller of encode supplied, over all groups
SuppliedKeys ==
    UNION {Members(recipient_groups[g]) : g \in 1..Len(recipient_groups)}

\* C16: header recipients map.  In every header encode writes, the keys of the
\* recipients map are exactly the public keys the caller supplied over all
\* groups, and each key has one entry: a 24-byte nonce followed by a box sealed
\* under that nonce between the sender and that key, whatever the number of
\* groups and whether or not MACs are active.
C16_RecipientsMap ==
    (pc # "idle" /\ Untouched)
    => LET recipients == input[2].obj.recipients
       IN  /\ DOMAIN input[2].obj = {"version", "sender", "recipients"}
           /\ DOMAIN recipients = SuppliedKeys
           /\ \A r \in SuppliedKeys :
                 /\ Len(recipients[r]) = 25
                 /\ crypto_box_opens(<<recipients[r][25]>>,
                                     SubSeq(recipients[r], 1, 24),
                                     sender_private, r)
                 /\ "session_key" \in DOMAIN SealedKeyMap(r)
                 /\ ("mac_key" \in DOMAIN SealedKeyMap(r)) <=> MacsActive

C16_Witness ==
    /\ pc = "encoded" /\ Untouched
    /\ recipient_groups = <<<<max_public, chris_public>>, <<jack_public>>>>
    /\ DOMAIN input[2].obj.recipients = {max_public, chris_public, jack_public}
    /\ Cardinality(DOMAIN input[2].obj.recipients) = 3
    /\ input[2].obj.recipients[jack_public][25].key = {jack_public}

C17_PrefixWritten ==
    (pc # "idle" /\ Untouched)
    => \A f \in 0..NumChunkFrames :
          /\ input[2 * f + 1] = packb_int(input[2 * f + 2].len)
          /\ input[2 * f + 1].obj > 0
          /\ (f > 0 /\ ~MacsActive) =>
                input[2 * f + 1].obj
                   = 1 + 6 + BinLen(16 + Len(Plain(f - 1)))

C17_PrefixIgnored ==
    (tamper.kind = "prefix" /\ Finished)
    => /\ KnownRecipient =>
             (pc = "returned"
              /\ result = [returned |-> TRUE, value |-> message])
       /\ ~KnownRecipient => UnknownRecipient

\* C17: the frame length prefix.  encode writes before each payload the byte
\* length of the serialized payload; decode does not use it: with the prefix of
\* the header frame or of a chunk frame replaced by another serialized
\* integer, a recipient of the header still gets exactly the message and any
\* other key still fails as an unknown recipient.
C17_LengthPrefix == C17_PrefixWritten /\ C17_PrefixIgnored

C17_Witness ==
    /\ tamper.kind = "prefix" /\ pc = "returned"
    /\ tamper.chunk = 1
    /\ input[3].obj = 70000
    /\ input[4].len = 125
    /\ Len(message) > chunk_size
    /\ result.value = message

\* the stripped chunk no longer has a tag at the decoder's group index
OwnTagStripped ==
    /\ tamper.kind = "downgrade"
    /\ tamper.group = -1 \/ mac_group >= tamper.group

\* C18: MAC downgrade is rejected.  A recipient whose sealed payload carries a
\* MAC key, reading a stream in which one chunk frame has no macs field or a
\* macs list too short for the recipient's group index, never hands that chunk
\* to decryption and never takes it into the output: decode fails on that
\* chunk at the look-up of the tag, although the ciphertext would open under
\* the session key; it returns nothing.
C18_DowngradeRejected ==
    (tamper.kind = "downgrade" /\ KnownRecipient /\ HeaderDone)
    => /\ mac_key # None
       /\ OwnTagStripped =>
             /\ tamper.chunk \notin opened
             /\ chunknum <= tamper.chunk
             /\ output = PlainUpTo(chunknum)
             /\ pc # "returned" /\ result = NoResult
             /\ Finished =>
                   /\ chunknum = tamper.chunk
                   /\ err_line = 168
                   /\ err = IF tamper.group = -1 THEN "KeyError"
                            ELSE "IndexError"
       /\ (~OwnTagStripped /\ Finished) =>
             (pc = "returned"
              /\ result = [returned |-> TRUE, value |-> message])

C18_Witness ==
    /\ tamper.kind = "downgrade" /\ KnownRecipient
    /\ pc = "failed" /\ err = "IndexError" /\ err_line = 168
    /\ tamper.group = 1 /\ mac_group = 1 /\ tamper.chunk = 1
    /\ opened = {0}
    /\ Len(output) = chunk_size
    /\ Len(input[ChunkItem(1)].obj.macs) = 1
    /\ crypto_secretbox_opens(input[ChunkItem(1)].obj.chunk,
                              BigEndian24(1), session_key)

\* the groups (from 0) that list public key r
GroupsListing(r) ==
    {g \in 0..(Len(recipient_groups) - 1) : r \in Members(recipient_groups[g + 1])}

\* the highest of a non-empty set of group indices
LastOf(S) == CHOOSE g \in S : \A h \in S : h <= g

\* C19: a recipient listed in more than one group.  The header of an untouched
\* stream holds one entry for such a key, sealed with the index and the MAC key
\* of the last group that lists it; every chunk carries a tag under that key at
\* that index, and the decode of that recipient uses them and returns exactly
\* the message.
C19_ListedInSeveralGroups ==
    (pc # "idle" /\ Untouched)
    => \A r \in SuppliedKeys :
          Cardinality(GroupsListing(r)) > 1 =>
             LET last == LastOf(GroupsListing(r))
             IN  /\ r \in DOMAIN input[2].obj.recipients
                 /\ SealedKeyMap(r).mac_group = last
                 /\ \A k \in 0..(NumChunkFrames - 1) :
                       /\ Len(input[ChunkItem(k)].obj.macs) > last
                       /\ TagKey(k, last) = SealedKeyMap(r).mac_key
                 /\ \A g \in GroupsListing(r) \ {last} :
                       TagKey(0, g) # SealedKeyMap(r).mac_key
                 /\ (HeaderDone /\ crypto_scalarmult_base(recipient_private) = r)
                       => (mac_group = last /\ mac_key = TagKey(0, last))
                 /\ (Finished /\ crypto_scalarmult_base(recipient_private) = r)
                       => (pc = "returned"
                           /\ result = [returned |-> TRUE, value |-> message])

C19_Witness ==
    /\ pc = "returned" /\ Untouched
    /\ recipient_groups = <<<<max_public>>, <<max_public>>>>
    /\ recipient_private = max_private
    /\ Cardinality(DOMAIN input[2].obj.recipients) = 1
    /\ mac_group = 1
    /\ Len(message) > chunk_size
    /\ result.value = message

\* decode has been called and has not ended
Decoding == pc \in {"header", "chunks"}

C20_Bounded ==
    /\ (pc # "idle" /\ Untouched) =>
          NumChunkFrames = (Len(message) + chunk_size - 1) \div chunk_size + 1
    /\ stream_pos <= Len(input)
    /\ pc = "returned" =>
          (stream_pos = 2 * chunknum + 4 /\ Plain(chunknum) = <<>>)

C20_Pass ==
    (Decoding /\ pc' # "failed")
    => (/\ stream_pos' = stream_pos + 2
        /\ stream_pos' <= Len(input)
        /\ pc' \in {"chunks", "returned"})

\* C20: termination.  encode writes one header frame and one frame per chunk of
\* the message, the empty one included.  Every pass of decode either fails or
\* takes one whole frame from the stream, which is finite; decode returns only
\* on an empty chunk, and once called it always ends, returned or failed, also
\* on a stream that holds no empty chunk.
C20_Termination ==
    /\ []C20_Bounded
    /\ [][C20_Pass]_vars
    /\ (Decoding ~> Finished)

C20_Witness ==
    /\ tamper.kind = "delete" /\ KnownRecipient
    /\ tamper.chunk = NumChunkFrames
    /\ NumChunkFrames >= 2
    /\ pc = "failed" /\ err = "InsufficientDataException" /\ err_line = 164
    /\ stream_pos = Len(input)
    /\ chunknum = NumChunkFrames
    /\ \A k \in 0..(NumChunkFrames - 1) : Plain(k) # <<>>

====
